---- MODULE Spec2Model ----
(***************************************************************************)
(* A model of the JSON-LD @context resolver (tools/exp/rdf/parse.go) and   *)
(* of the RFC ontology provider with its three scalar nodes                *)
(* (tools/exp/rdf/rfc/ontology.go).                                        *)
(***************************************************************************)
EXTENDS Integers, Sequences, FiniteSets, TLC

VARIABLES registry, input, pc, idx, pending, visited, nodes, err, calls,
          vocab, last, threads, locks, setCalls, serial, crashed,
          discipline

\* the state of Apply calls that run in parallel
concVars == <<threads, locks, setCalls, serial, crashed, discipline>>

vars == <<registry, input, pc, idx, pending, visited, nodes, err, calls,
          vocab, last, concVars>>

(***************************************************************************)
(* Bounds of the model.                                                    *)
(***************************************************************************)
\* longest sequence-shaped @context that is enumerated
MaxLen == 2
\* most node applications that are permuted against each other
MaxApplied == 2
\* the Apply calls that run in parallel
NumThreads == 2

(***************************************************************************)
(* Program constants.                                                      *)
(***************************************************************************)
JSON_LD_CONTEXT == "@context"
rfcSpec == "https://tools.ietf.org/html/"
bcp47Spec == "bcp47"
mimeSpec == "rfc2045"
relSpec == "rfc5988"

\* the nil error
Nil == "nil"

\* the error texts of parseJSONLDContext
ErrNoContext == "no @context in input"
ErrDictInArray == "@context value in dict in array is neither a dict nor a string"
ErrArrayElem == "@context value in array is neither a dict nor a string"
ErrDict == "@context value in dict is neither a dict nor a string"
ErrSingle == "single @context value is not a string"

ShapeErrors == {ErrNoContext, ErrDictInArray, ErrArrayElem, ErrDict, ErrSingle}

(***************************************************************************)
(* Document values: interface{} holding a decoded JSON tree.               *)
(***************************************************************************)
Str(s) == [kind |-> "string", s |-> s]
Num == [kind |-> "number"]
Null == [kind |-> "null"]
Dict(m) == [kind |-> "map", m |-> m]
Arr(a) == [kind |-> "array", a |-> a]

IsString(v) == v.kind = "string"
IsDict(v) == v.kind = "map"
IsArray(v) == v.kind = "array"

\* names that occur as strings in the enumerated contexts
Names == {"", rfcSpec}
\* the key sets of the enumerated mapping contexts
\* an inline term definition (a nested mapping)
TermObject == Dict([k \in {"@id"} |-> Str(rfcSpec)])

\* the values a mapping entry is enumerated over
EntryValues == {Str(rfcSpec), TermObject, Num}

MapsOver(keys) == {Dict(m) : m \in [keys -> EntryValues]}
DictKeySets == {{}, {"x"}, {"x", "y"}}
DictValues == UNION {MapsOver(keys) : keys \in DictKeySets}

\* the elements a sequence context is enumerated over
ElemValues == {Str(n) : n \in Names} \cup {Num} \cup DictValues

SeqsUpTo(S, n) == UNION {[1..k -> S] : k \in 0..n}
ArrValues == {Arr(a) : a \in SeqsUpTo(ElemValues, MaxLen)}

ContextValues == ArrValues \cup DictValues \cup {Str(n) : n \in Names} \cup {Num, Null}

\* JSONLD: the input documents, with and without the @context key
Inputs == {[k \in {JSON_LD_CONTEXT} |-> c] : c \in ContextValues}
            \cup {[k \in {"name"} |-> Str("doc")]}

(***************************************************************************)
(* The RFC ontology provider.                                              *)
(***************************************************************************)
RFCOntology(pkg) == [Package |-> pkg]

Delegate(kind, pkg) == [kind |-> kind, pkg |-> pkg]

AliasedDelegate(spec, alias, name, delegate) ==
    [Spec |-> spec, Alias |-> alias, Name |-> name, Delegate |-> delegate]

Result(n, e) == [nodes |-> n, err |-> e]

LoadAsAlias(o, s) ==
    Result(<< AliasedDelegate(rfcSpec, s, bcp47Spec, Delegate("bcp47", o.Package)),
              AliasedDelegate(rfcSpec, s, mimeSpec, Delegate("mime", o.Package)),
              AliasedDelegate(rfcSpec, s, relSpec, Delegate("rel", o.Package)) >>,
           Nil)

Load(o) == LoadAsAlias(o, "")

ErrCannotFind(name, alias) ==
    "rfc ontology cannot find \"" \o name \o "\" to alias to \"" \o alias \o "\""

\* LoadSpecificAsAlias returning every term of the provider under the alias
LoadSpecificAsAliasEveryTerm(o, alias, name) == LoadAsAlias(o, alias)

LoadSpecificAsAlias(o, alias, name) ==
    CASE name = bcp47Spec ->
           Result(<< AliasedDelegate("", "", alias, Delegate("bcp47", o.Package)) >>, Nil)
      [] name = mimeSpec ->
           Result(<< AliasedDelegate("", "", alias, Delegate("mime", o.Package)) >>, Nil)
      [] name = relSpec ->
           Result(<< AliasedDelegate("", "", alias, Delegate("rel", o.Package)) >>, Nil)
      [] OTHER -> Result(<<>>, ErrCannotFind(name, alias))

LoadElement(o, name, payload) == Result(<<>>, Nil)

(***************************************************************************)
(* The ontology registry: provider name or URI -> provider.                *)
(***************************************************************************)
\* two provider instances, each registered (or not) under its own name
ProviderOf(name) == IF name = rfcSpec THEN RFCOntology("a") ELSE RFCOntology("b")

Registries == {[n \in names |-> ProviderOf(n)] : names \in SUBSET Names}

ErrNotFound(s) == "no ontology for: " \o s
ErrUnknownTerm == "unknown term object"

getFor(reg, s) ==
    IF s \in DOMAIN reg THEN Load(reg[s]) ELSE Result(<<>>, ErrNotFound(s))

getAliased(reg, alias, s) ==
    IF s \in DOMAIN reg THEN LoadAsAlias(reg[s], alias) ELSE Result(<<>>, ErrNotFound(s))

getAliasedObject(reg, alias, object) ==
    IF "@id" \in DOMAIN object /\ IsString(object["@id"]) /\ object["@id"].s \in DOMAIN reg
    THEN LoadElement(reg[object["@id"].s], alias, object)
    ELSE Result(<<>>, ErrUnknownTerm)

CallFor(s) == [op |-> "getFor", name |-> s]
CallAliased(alias, s) == [op |-> "getAliased", alias |-> alias, name |-> s]
CallAliasedObject(alias, object) == [op |-> "getAliasedObject", alias |-> alias, object |-> object]

(***************************************************************************)
(* parseJSONLDContext: the running state is the named results (nodes, err) *)
(* and the log of the registry calls made so far.                          *)
(***************************************************************************)
State(n, e, c) == [nodes |-> n, err |-> e, calls |-> c]

\* n, err = <registry call>; if err != nil { return }; nodes = append(nodes, n...)
Accumulate(st, call, r) ==
    IF r.err # Nil
    THEN State(st.nodes, r.err, Append(st.calls, call))
    ELSE State(st.nodes \o r.nodes, Nil, Append(st.calls, call))

\* the body of the loop over the entries of a mapping inside a sequence
DictInArrayEntry(reg, st, alias, val) ==
    IF IsString(val)
    THEN Accumulate(st, CallAliased(alias, val.s), getAliased(reg, alias, val.s))
    ELSE IF IsDict(val)
    THEN Accumulate(st, CallAliasedObject(alias, val.m), getAliasedObject(reg, alias, val.m))
    ELSE State(st.nodes, ErrDictInArray, st.calls)

\* StringInArray assigning the looked-up nodes instead of appending them
StringInArrayAssigns(reg, st, s) ==
    LET r == getFor(reg, s)
    IN State(r.nodes, r.err, Append(st.calls, CallFor(s)))

\* the body of the loop over a string element of a sequence
StringInArray(reg, st, s) ==
    Accumulate(st, CallFor(s), getFor(reg, s))

\* DictEntry resolving a string value by the unaliased lookup
DictEntryUnaliased(reg, st, alias, val) ==
    IF IsString(val)
    THEN Accumulate(st, CallFor(val.s), getFor(reg, val.s))
    ELSE IF IsDict(val)
    THEN Accumulate(st, CallAliasedObject(alias, val.m), getAliasedObject(reg, alias, val.m))
    ELSE State(st.nodes, ErrDict, st.calls)

\* the body of the loop over the entries of a top-level mapping
DictEntry(reg, st, alias, val) ==
    IF IsString(val)
    THEN Accumulate(st, CallAliased(alias, val.s), getAliased(reg, alias, val.s))
    ELSE IF IsDict(val)
    THEN Accumulate(st, CallAliasedObject(alias, val.m), getAliasedObject(reg, alias, val.m))
    ELSE State(st.nodes, ErrDict, st.calls)

\* SingleValue looking up the empty name whatever the string is
SingleValueEmptyName(reg, st, i) ==
    LET r == getFor(reg, "")
    IN State(r.nodes, r.err, Append(st.calls, CallFor("")))

\* the single-value branch: err is assigned when the value is no string, and
\* then the results of registry.getFor(s) are returned in its place
SingleValue(reg, st, i) ==
    LET s == IF IsString(i) THEN i.s ELSE ""
        st1 == IF IsString(i) THEN st ELSE State(st.nodes, ErrSingle, st.calls)
        r == getFor(reg, s)
    IN State(r.nodes, r.err, Append(st1.calls, CallFor(s)))

Cur == State(nodes, err, calls)

Context == input[JSON_LD_CONTEXT]

(***************************************************************************)
(* The Parsed Vocabulary: spec URI -> Reference Entry -> term -> value.    *)
(***************************************************************************)
EmptyVocabulary == [u \in {} |-> 0]

NoValues == [n \in {} |-> 0]

\* fetch or create the Reference Entry of a spec URI
GetReference(ctx, uri) ==
    IF uri \in DOMAIN ctx
    THEN ctx
    ELSE [u \in DOMAIN ctx \cup {uri} |-> IF u = uri THEN [Values |-> NoValues] ELSE ctx[u]]

\* v.Values[name].Name: a missing key reads as the zero value
NameOf(ref, name) ==
    IF name \in DOMAIN ref.Values THEN ref.Values[name].Name ELSE ""

ErrCollision == "name already exists for vocabulary Values"

\* commit a value into a Reference Entry: a different value at the slot is a
\* collision, the same value again is a no-op
SetValue(ref, name, val) ==
    IF name \in DOMAIN ref.Values /\ ref.Values[name] # val
    THEN [ref |-> ref, err |-> ErrCollision]
    ELSE [ref |-> [Values |-> [n \in DOMAIN ref.Values \cup {name} |->
                                  IF n = name THEN val ELSE ref.Values[n]]],
          err |-> Nil]

\* url.Parse of the term URIs: scheme, host and path of an absolute URL
rfcScheme == "https"
rfcHost == "tools.ietf.org"
rfcPath == "/html/"

TermNames == {bcp47Spec, mimeSpec, relSpec}

UrlParse(s) ==
    IF \E n \in TermNames : s = rfcScheme \o "://" \o rfcHost \o rfcPath \o n
    THEN [url |-> [Scheme |-> rfcScheme, Host |-> rfcHost,
                   Path |-> rfcPath \o (CHOOSE n \in TermNames :
                                           s = rfcScheme \o "://" \o rfcHost \o rfcPath \o n)],
          err |-> Nil]
    ELSE [url |-> [Scheme |-> "", Host |-> "", Path |-> s], err |-> "parse " \o s]

\* the outcome of one call of a node's method
Outcome(ctx, claimed, e, commits) ==
    [ctx |-> ctx, claimed |-> claimed, err |-> e, commits |-> commits]

\* ScalarValue describing a nilable type whose zero value is nil
ScalarValueNilable(pkg, name, u, what) ==
    [Name |-> name,
     URI |-> u,
     DefinitionType |-> "string",
     Zero |-> "nil",
     IsNilable |-> TRUE,
     SerializeFn |-> [pkg |-> pkg, name |-> name, type |-> "string", body |-> "return this, nil"],
     DeserializeFn |-> [pkg |-> pkg, name |-> name, type |-> "string",
                        body |-> "string assertion, else error for " \o what],
     LessFn |-> [pkg |-> pkg, name |-> name, type |-> "string", body |-> "return lhs < rhs"]]

\* the Vocabulary Value the three scalar nodes build
ScalarValue(pkg, name, u, what) ==
    [Name |-> name,
     URI |-> u,
     DefinitionType |-> "string",
     Zero |-> "\"\"",
     IsNilable |-> FALSE,
     SerializeFn |-> [pkg |-> pkg, name |-> name, type |-> "string", body |-> "return this, nil"],
     DeserializeFn |-> [pkg |-> pkg, name |-> name, type |-> "string",
                        body |-> "string assertion, else error for " \o what],
     LessFn |-> [pkg |-> pkg, name |-> name, type |-> "string", body |-> "return lhs < rhs"]]

\* ScalarApply without the check that the term is still unpopulated
ScalarApplyUnchecked(pkg, name, what, key, value, ctx) ==
    LET ctx1 == GetReference(ctx, rfcSpec)
        v == ctx1[rfcSpec]
        p == UrlParse(rfcSpec \o name)
    IN IF p.err # Nil
       THEN Outcome(ctx1, TRUE, p.err, 0)
       ELSE LET r == SetValue(v, name, ScalarValue(pkg, name, p.url, what))
                ctx2 == [ctx1 EXCEPT ![rfcSpec] = r.ref]
            IN Outcome(ctx2, TRUE, r.err, 1)

\* ScalarApply without the check, storing the value into the map directly
ScalarApplyOverwrites(pkg, name, what, key, value, ctx) ==
    LET ctx1 == GetReference(ctx, rfcSpec)
        v == ctx1[rfcSpec]
        p == UrlParse(rfcSpec \o name)
        stored == [Values |-> [n \in DOMAIN v.Values \cup {name} |->
                                  IF n = name THEN ScalarValue(pkg, name, p.url, what)
                                  ELSE v.Values[n]]]
    IN Outcome([ctx1 EXCEPT ![rfcSpec] = stored], TRUE, Nil, 1)

\* ScalarApply storing the value into the map before the commit is checked
ScalarApplyWritesOnError(pkg, name, what, key, value, ctx) ==
    LET ctx1 == GetReference(ctx, rfcSpec)
        v == ctx1[rfcSpec]
    IN IF NameOf(v, name) = ""
       THEN LET p == UrlParse(rfcSpec \o name)
                val == ScalarValue(pkg, name, p.url, what)
                r == SetValue(v, name, val)
                stored == [Values |-> [n \in DOMAIN v.Values \cup {name} |->
                                          IF n = name THEN val ELSE v.Values[n]]]
            IN Outcome([ctx1 EXCEPT ![rfcSpec] = stored], TRUE, r.err, 1)
       ELSE Outcome(ctx1, TRUE, Nil, 0)

\* the body the three Apply methods share, term by term
ScalarApply(pkg, name, what, key, value, ctx) ==
    LET ctx1 == GetReference(ctx, rfcSpec)
        v == ctx1[rfcSpec]
    IN IF NameOf(v, name) = ""
       THEN LET p == UrlParse(rfcSpec \o name)
            IN IF p.err # Nil
               THEN Outcome(ctx1, TRUE, p.err, 0)
               ELSE LET r == SetValue(v, name, ScalarValue(pkg, name, p.url, what))
                        ctx2 == [ctx1 EXCEPT ![rfcSpec] = r.ref]
                    IN Outcome(ctx2, TRUE, r.err, 1)
       ELSE Outcome(ctx1, TRUE, Nil, 0)

\* bcp47Apply declining every key but the canonical name of its term
bcp47ApplyOwnKeyOnly(b, key, value, ctx) ==
    IF key = bcp47Spec
    THEN ScalarApply(b.pkg, bcp47Spec, "bcp47 languagetag", key, value, ctx)
    ELSE Outcome(ctx, FALSE, Nil, 0)

bcp47Apply(b, key, value, ctx) ==
    ScalarApply(b.pkg, bcp47Spec, "bcp47 languagetag", key, value, ctx)

\* mimeApply reading the Name of the bcp47 term in its check
mimeApplyChecksBcp47(m, key, value, ctx) ==
    LET ctx1 == GetReference(ctx, rfcSpec)
    IN IF NameOf(ctx1[rfcSpec], bcp47Spec) = ""
       THEN ScalarApply(m.pkg, mimeSpec, "MIME media type", key, value, ctx)
       ELSE Outcome(ctx1, TRUE, Nil, 0)

mimeApply(m, key, value, ctx) ==
    ScalarApply(m.pkg, mimeSpec, "MIME media type", key, value, ctx)

relApply(r, key, value, ctx) ==
    ScalarApply(r.pkg, relSpec, "rel", key, value, ctx)

bcp47Enter(b, key, ctx) == Outcome(ctx, TRUE, "bcp47 langaugetag cannot be entered", 0)
bcp47Exit(b, key, ctx) == Outcome(ctx, TRUE, "bcp47 languagetag cannot be exited", 0)
mimeEnter(m, key, ctx) == Outcome(ctx, TRUE, "MIME media type cannot be entered", 0)
mimeExit(m, key, ctx) == Outcome(ctx, TRUE, "MIME media type cannot be exited", 0)
relEnter(r, key, ctx) == Outcome(ctx, TRUE, "rel cannot be entered", 0)
\* relExit returning no error
relExitSucceeds(r, key, ctx) == Outcome(ctx, TRUE, Nil, 0)
relExit(r, key, ctx) == Outcome(ctx, TRUE, "rel cannot be exited", 0)

\* dynamic dispatch on the concrete node type
NodeApply(d, key, value, ctx) ==
    CASE d.kind = "bcp47" -> bcp47Apply(d, key, value, ctx)
      [] d.kind = "mime" -> mimeApply(d, key, value, ctx)
      [] d.kind = "rel" -> relApply(d, key, value, ctx)

NodeEnter(d, key, ctx) ==
    CASE d.kind = "bcp47" -> bcp47Enter(d, key, ctx)
      [] d.kind = "mime" -> mimeEnter(d, key, ctx)
      [] d.kind = "rel" -> relEnter(d, key, ctx)

NodeExit(d, key, ctx) ==
    CASE d.kind = "bcp47" -> bcp47Exit(d, key, ctx)
      [] d.kind = "mime" -> mimeExit(d, key, ctx)
      [] d.kind = "rel" -> relExit(d, key, ctx)

\* the document keys and values the nodes are driven against
Keys == {"x", bcp47Spec}
WireValues == {Str("en-US"), Num}

(***************************************************************************)
(* The state machine: one call of parseJSONLDContext, step by step, and    *)
(* then the document walker driving the returned nodes.                    *)
(***************************************************************************)
NoCall == [op |-> "none"]

Threads == 1..NumThreads

IdleThread ==
    [pc |-> "idle", d |-> [kind |-> "", pkg |-> ""], sawEmpty |-> FALSE,
     raced |-> FALSE, err |-> Nil]

\* no Apply call runs in parallel
NoThreads ==
    /\ threads = [t \in Threads |-> IdleThread]
    /\ locks = {}
    /\ setCalls = [n \in TermNames |-> 0]
    /\ serial = <<>>
    /\ crashed = FALSE
    /\ discipline = "none"

Init ==
    /\ registry \in Registries
    /\ input \in Inputs
    /\ pc = "start"
    /\ idx = 0
    /\ pending = {}
    /\ visited = <<>>
    /\ nodes = <<>>
    /\ err = Nil
    /\ calls = <<>>
    /\ vocab = EmptyVocabulary
    /\ last = NoCall
    /\ NoThreads

\* Continue without the return on an error
ContinueNoReturn(st, next) ==
    /\ nodes' = st.nodes
    /\ err' = st.err
    /\ calls' = st.calls
    /\ pc' = next

\* assign the running results; control returns on an error and else goes to next
Continue(st, next) ==
    /\ nodes' = st.nodes
    /\ err' = st.err
    /\ calls' = st.calls
    /\ pc' = IF st.err # Nil THEN "returned" ELSE next

\* NoContext without its return: control falls through to the single-value branch
NoContextFallsThrough ==
    /\ pc = "start"
    /\ JSON_LD_CONTEXT \notin DOMAIN input
    /\ LET st == SingleValue(registry, State(nodes, ErrNoContext, calls), Null)
       IN /\ nodes' = st.nodes
          /\ err' = st.err
          /\ calls' = st.calls
    /\ pc' = "returned"
    /\ UNCHANGED <<concVars, registry, input, idx, pending, visited, vocab, last>>

\* i, ok := input["@context"]; if !ok { err = ...; return }
NoContext ==
    /\ pc = "start"
    /\ JSON_LD_CONTEXT \notin DOMAIN input
    /\ err' = ErrNoContext
    /\ pc' = "returned"
    /\ UNCHANGED <<concVars, registry, input, idx, pending, visited, nodes, calls, vocab, last>>

\* if inArray, ok := i.([]interface{}); ok
EnterArray ==
    /\ pc = "start"
    /\ JSON_LD_CONTEXT \in DOMAIN input
    /\ IsArray(Context)
    /\ pc' = "array"
    /\ idx' = 1
    /\ UNCHANGED <<concVars, registry, input, pending, visited, nodes, err, calls, vocab, last>>

\* else if inMap, ok := i.(map[string]interface{}); ok
EnterDict ==
    /\ pc = "start"
    /\ JSON_LD_CONTEXT \in DOMAIN input
    /\ IsDict(Context)
    /\ pc' = "dict"
    /\ pending' = DOMAIN Context.m
    /\ visited' = <<>>
    /\ UNCHANGED <<concVars, registry, input, idx, nodes, err, calls, vocab, last>>

\* else: @context is a single value
Single ==
    /\ pc = "start"
    /\ JSON_LD_CONTEXT \in DOMAIN input
    /\ ~IsArray(Context)
    /\ ~IsDict(Context)
    /\ LET st == SingleValue(registry, Cur, Context)
       IN /\ nodes' = st.nodes
          /\ err' = st.err
          /\ calls' = st.calls
    /\ pc' = "returned"
    /\ UNCHANGED <<concVars, registry, input, idx, pending, visited, vocab, last>>

\* ArrayString applying the nodes it resolved to the vocabulary at once
ArrayStringApplies ==
    /\ pc = "array"
    /\ idx <= Len(Context.a)
    /\ IsString(Context.a[idx])
    /\ LET st == StringInArray(registry, Cur, Context.a[idx].s)
       IN /\ Continue(st, "array")
          /\ idx' = IF st.err # Nil THEN idx ELSE idx + 1
          /\ vocab' = IF st.nodes = <<>> THEN vocab
                      ELSE NodeApply(st.nodes[1].Delegate, JSON_LD_CONTEXT, Context, vocab).ctx
    /\ UNCHANGED <<concVars, registry, input, pending, visited, last>>

\* for _, iVal := range inArray: a string element
ArrayString ==
    /\ pc = "array"
    /\ idx <= Len(Context.a)
    /\ IsString(Context.a[idx])
    /\ LET st == StringInArray(registry, Cur, Context.a[idx].s)
       IN /\ Continue(st, "array")
          /\ idx' = IF st.err # Nil THEN idx ELSE idx + 1
    /\ UNCHANGED <<concVars, registry, input, pending, visited, vocab, last>>

\* for _, iVal := range inArray: a mapping element, whose entries are ranged over
ArrayDict ==
    /\ pc = "array"
    /\ idx <= Len(Context.a)
    /\ IsDict(Context.a[idx])
    /\ pc' = "arraydict"
    /\ pending' = DOMAIN Context.a[idx].m
    /\ visited' = <<>>
    /\ UNCHANGED <<concVars, registry, input, idx, nodes, err, calls, vocab, last>>

\* ArrayOther skipping the element instead of failing
ArrayOtherSkips ==
    /\ pc = "array"
    /\ idx <= Len(Context.a)
    /\ ~IsString(Context.a[idx])
    /\ ~IsDict(Context.a[idx])
    /\ idx' = idx + 1
    /\ UNCHANGED <<concVars, registry, input, pc, pending, visited, nodes, err, calls, vocab, last>>

\* for _, iVal := range inArray: an element that is neither
ArrayOther ==
    /\ pc = "array"
    /\ idx <= Len(Context.a)
    /\ ~IsString(Context.a[idx])
    /\ ~IsDict(Context.a[idx])
    /\ err' = ErrArrayElem
    /\ pc' = "returned"
    /\ UNCHANGED <<concVars, registry, input, idx, pending, visited, nodes, calls, vocab, last>>

\* the range over the sequence is exhausted: return
ArrayDone ==
    /\ pc = "array"
    /\ idx > Len(Context.a)
    /\ pc' = "returned"
    /\ UNCHANGED <<concVars, registry, input, idx, pending, visited, nodes, err, calls, vocab, last>>

\* for alias, val := range valMap: the range picks the remaining entries in any order
ArrayDictEntry ==
    /\ pc = "arraydict"
    /\ \E alias \in pending :
        /\ Continue(DictInArrayEntry(registry, Cur, alias, Context.a[idx].m[alias]), "arraydict")
        /\ pending' = pending \ {alias}
        /\ visited' = Append(visited, alias)
    /\ UNCHANGED <<concVars, registry, input, idx, vocab, last>>

\* the range over the mapping element is exhausted: on to the next element
ArrayDictDone ==
    /\ pc = "arraydict"
    /\ pending = {}
    /\ pc' = "array"
    /\ idx' = idx + 1
    /\ UNCHANGED <<concVars, registry, input, pending, visited, nodes, err, calls, vocab, last>>

\* for alias, iVal := range inMap
DictEntryStep ==
    /\ pc = "dict"
    /\ \E alias \in pending :
        /\ Continue(DictEntry(registry, Cur, alias, Context.m[alias]), "dict")
        /\ pending' = pending \ {alias}
        /\ visited' = Append(visited, alias)
    /\ UNCHANGED <<concVars, registry, input, idx, vocab, last>>

\* the range over the top-level mapping is exhausted: return
DictDone ==
    /\ pc = "dict"
    /\ pending = {}
    /\ pc' = "returned"
    /\ UNCHANGED <<concVars, registry, input, idx, pending, visited, nodes, err, calls, vocab, last>>

Resolve ==
    \/ NoContext
    \/ EnterArray
    \/ EnterDict
    \/ Single
    \/ ArrayString
    \/ ArrayDict
    \/ ArrayOther
    \/ ArrayDone
    \/ ArrayDictEntry
    \/ ArrayDictDone
    \/ DictEntryStep
    \/ DictDone

\* the document walker: it holds the nodes only once the resolver has returned
\* them without an error, and drives them against the keys of the document
Held == {nodes[i].Delegate : i \in 1..Len(nodes)}

Walk(op, d, key, out) ==
    /\ vocab' = out.ctx
    /\ last' = [op |-> op, kind |-> d.kind, key |-> key, claimed |-> out.claimed,
                err |-> out.err, commits |-> out.commits]
    /\ UNCHANGED <<concVars, registry, input, pc, idx, pending, visited, nodes, err, calls>>

WalkApply ==
    /\ pc = "returned"
    /\ err = Nil
    /\ \E d \in Held, key \in DOMAIN input :
        Walk("Apply", d, key, NodeApply(d, key, input[key], vocab))

WalkEnter ==
    /\ pc = "returned"
    /\ err = Nil
    /\ \E d \in Held, key \in DOMAIN input :
        Walk("Enter", d, key, NodeEnter(d, key, vocab))

WalkExit ==
    /\ pc = "returned"
    /\ err = Nil
    /\ \E d \in Held, key \in DOMAIN input :
        Walk("Exit", d, key, NodeExit(d, key, vocab))

\* ParseVocabulary returning no error whatever the resolver returned
ParseVocabularyNoError ==
    /\ pc = "returned"
    /\ last = NoCall
    /\ pc' = "parsed"
    /\ last' = [op |-> "ParseVocabulary", vocabulary |-> Nil, err |-> Nil]
    /\ UNCHANGED <<concVars, registry, input, idx, pending, visited, nodes, err, calls, vocab>>

\* ParseVocabulary, once its call of parseJSONLDContext has returned: the
\* nodes go to the blank identifier, the named result vocabulary was never
\* assigned, and err is what the resolver returned
ParseVocabulary ==
    /\ pc = "returned"
    /\ last = NoCall
    /\ pc' = "parsed"
    /\ last' = [op |-> "ParseVocabulary", vocabulary |-> Nil, err |-> err]
    /\ UNCHANGED <<concVars, registry, input, idx, pending, visited, nodes, err, calls, vocab>>

Next ==
    \/ Resolve
    \/ ParseVocabulary
    \/ WalkApply
    \/ WalkEnter
    \/ WalkExit

Spec == Init /\ [][Next]_vars

(***************************************************************************)
(* The nodes on their own: a walker that was handed the nodes both         *)
(* providers load drives them against any key and value, in any order.     *)
(***************************************************************************)
FullRegistry == [n \in Names |-> ProviderOf(n)]

NodeInit ==
    /\ registry = FullRegistry
    /\ input = [k \in {JSON_LD_CONTEXT} |-> Arr(<<Str(rfcSpec), Str("")>>)]
    /\ pc = "returned"
    /\ idx = 3
    /\ pending = {}
    /\ visited = <<>>
    /\ nodes = getFor(FullRegistry, rfcSpec).nodes \o getFor(FullRegistry, "").nodes
    /\ err = Nil
    /\ calls = <<CallFor(rfcSpec), CallFor("")>>
    /\ vocab = EmptyVocabulary
    /\ last = NoCall
    /\ NoThreads

NodeWalkApply ==
    \E d \in Held, key \in Keys, value \in WireValues :
        Walk("Apply", d, key, NodeApply(d, key, value, vocab))

NodeWalkEnter ==
    \E d \in Held, key \in Keys :
        Walk("Enter", d, key, NodeEnter(d, key, vocab))

NodeWalkExit ==
    \E d \in Held, key \in Keys :
        Walk("Exit", d, key, NodeExit(d, key, vocab))

NodeNext ==
    \/ NodeWalkApply
    \/ NodeWalkEnter
    \/ NodeWalkExit

NodeSpec == NodeInit /\ [][NodeNext]_vars

(***************************************************************************)
(* The nodes against a vocabulary the caller hands in: some slots of the   *)
(* provider's Reference Entry already hold a value that was committed      *)
(* without a Name, so that the commit of Apply finds the slot taken.       *)
(***************************************************************************)
\* the zero rdf.VocabularyValue
UnnamedValue ==
    [Name |-> "",
     URI |-> [Scheme |-> "", Host |-> "", Path |-> ""],
     DefinitionType |-> "",
     Zero |-> "",
     IsNilable |-> FALSE,
     SerializeFn |-> [pkg |-> "", name |-> "", type |-> "", body |-> ""],
     DeserializeFn |-> [pkg |-> "", name |-> "", type |-> "", body |-> ""],
     LessFn |-> [pkg |-> "", name |-> "", type |-> "", body |-> ""]]

TakenVocabulary(taken) ==
    IF taken = {} THEN EmptyVocabulary
    ELSE [u \in {rfcSpec} |-> [Values |-> [n \in taken |-> UnnamedValue]]]

CommitInit ==
    /\ registry = FullRegistry
    /\ input = [k \in {JSON_LD_CONTEXT} |-> Arr(<<Str(rfcSpec), Str("")>>)]
    /\ pc = "returned"
    /\ idx = 3
    /\ pending = {}
    /\ visited = <<>>
    /\ nodes = getFor(FullRegistry, rfcSpec).nodes \o getFor(FullRegistry, "").nodes
    /\ err = Nil
    /\ calls = <<CallFor(rfcSpec), CallFor("")>>
    /\ vocab \in {TakenVocabulary(taken) : taken \in SUBSET TermNames}
    /\ last = NoCall
    /\ NoThreads

CommitSpec == CommitInit /\ [][NodeNext]_vars

(***************************************************************************)
(* One term loaded under an alias: a caller asks a provider for one term   *)
(* by name, holds the nodes it gets and applies them.                      *)
(***************************************************************************)
Aliases == {"", "x", bcp47Spec}

\* the names a caller asks for: the terms, a full term URI, and no term
AskedNames == {bcp47Spec, mimeSpec, relSpec, rfcSpec \o bcp47Spec, "x", ""}

Providers == {ProviderOf(n) : n \in Names}

CallSpecific(o, alias, name) ==
    [op |-> "LoadSpecificAsAlias", pkg |-> o.Package, alias |-> alias, name |-> name]

LoaderInit ==
    /\ registry = FullRegistry
    /\ input = [k \in {JSON_LD_CONTEXT} |-> Arr(<<>>)]
    /\ pc = "returned"
    /\ idx = 1
    /\ pending = {}
    /\ visited = <<>>
    /\ nodes = <<>>
    /\ err = Nil
    /\ calls = <<>>
    /\ vocab = EmptyVocabulary
    /\ last = NoCall
    /\ NoThreads

LoadSpecific ==
    \E o \in Providers, alias \in Aliases, name \in AskedNames :
        LET r == LoadSpecificAsAlias(o, alias, name)
        IN /\ nodes' = r.nodes
           /\ err' = r.err
           /\ calls' = <<CallSpecific(o, alias, name)>>
           /\ UNCHANGED <<concVars, registry, input, pc, idx, pending, visited, vocab, last>>

LoaderNext ==
    \/ LoadSpecific
    \/ NodeWalkApply

LoaderSpec == LoaderInit /\ [][LoaderNext]_vars

(***************************************************************************)
(* Apply calls that run in parallel.  Each thread runs the body of Apply   *)
(* statement by statement: GetReference, the read of the term's Name, and  *)
(* SetValue, whose store into the Values map of the Reference Entry takes  *)
(* from SetValueBegin to SetValueEnd.  A host serialises by "entry" (one   *)
(* lock per spec URI, held for the whole call), by "term" (one lock per    *)
(* term, held from the read of the Name through SetValue) or by "none".    *)
(* Values is a Go map: a read or a store that overlaps a store of another  *)
(* thread is a data race, after which the runtime may stop the program     *)
(* with a fatal error, or the store may be lost.                           *)
(***************************************************************************)
TermOf(d) ==
    CASE d.kind = "bcp47" -> bcp47Spec
      [] d.kind = "mime" -> mimeSpec
      [] d.kind = "rel" -> relSpec

\* the words by which the Apply of a node names its type in its error text
WhatOf(d) ==
    CASE d.kind = "bcp47" -> "bcp47 languagetag"
      [] d.kind = "mime" -> "MIME media type"
      [] d.kind = "rel" -> "rel"

Running(d) == [pc |-> "ref", d |-> d, sawEmpty |-> FALSE, raced |-> FALSE, err |-> Nil]

\* another thread is in the middle of its store into the Values map
Storing(t) == {u \in Threads \ {t} : threads[u].pc = "writing"}

\* what an access of the Values map can come to
Accesses(t) == IF Storing(t) = {} THEN {"done"} ELSE {"done", "fatal"}

\* the runtime stops the program: concurrent map read and map write
Fatal ==
    /\ crashed' = TRUE
    /\ UNCHANGED <<threads, locks, setCalls, serial, vocab>>

ApplyCall(t) ==
    /\ ~crashed
    /\ threads[t].pc = "idle"
    /\ discipline = "entry" => rfcSpec \notin locks
    /\ \E d \in Held :
        /\ threads' = [threads EXCEPT ![t] = Running(d)]
        /\ serial' = IF discipline = "entry" THEN Append(serial, d) ELSE serial
    /\ locks' = IF discipline = "entry" THEN locks \cup {rfcSpec} ELSE locks
    /\ UNCHANGED <<setCalls, crashed, vocab>>
    /\ UNCHANGED <<discipline, registry, input, pc, idx, pending, visited, nodes, err, calls, last>>

ApplyGetReference(t) ==
    /\ ~crashed
    /\ threads[t].pc = "ref"
    /\ vocab' = GetReference(vocab, rfcSpec)
    /\ threads' = [threads EXCEPT ![t].pc = "check"]
    /\ UNCHANGED <<locks, setCalls, serial, crashed>>
    /\ UNCHANGED <<discipline, registry, input, pc, idx, pending, visited, nodes, err, calls, last>>

\* ApplyCheck going on to SetValue whatever Name it reads
ApplyCheckSkipped(t) ==
    /\ ~crashed
    /\ threads[t].pc = "check"
    /\ discipline = "term" => TermOf(threads[t].d) \notin locks
    /\ threads' = [threads EXCEPT ![t].pc = "commit", ![t].sawEmpty = TRUE]
    /\ locks' = IF discipline = "term" THEN locks \cup {TermOf(threads[t].d)} ELSE locks
    /\ serial' = IF discipline = "term" THEN Append(serial, threads[t].d) ELSE serial
    /\ UNCHANGED <<setCalls, crashed, vocab>>
    /\ UNCHANGED <<discipline, registry, input, pc, idx, pending, visited, nodes, err, calls, last>>

ApplyCheck(t) ==
    /\ ~crashed
    /\ threads[t].pc = "check"
    /\ discipline = "term" => TermOf(threads[t].d) \notin locks
    /\ \E access \in Accesses(t) :
        IF access = "fatal" THEN Fatal
        ELSE LET d == threads[t].d
                 empty == NameOf(vocab[rfcSpec], TermOf(d)) = ""
             IN /\ threads' = [threads EXCEPT ![t].pc = IF empty THEN "commit" ELSE "done",
                                              ![t].sawEmpty = empty]
                /\ locks' = CASE discipline = "term" /\ empty -> locks \cup {TermOf(d)}
                              [] discipline = "entry" /\ ~empty -> locks \ {rfcSpec}
                              [] OTHER -> locks
                /\ serial' = IF discipline = "term" THEN Append(serial, d) ELSE serial
                /\ UNCHANGED <<setCalls, crashed, vocab>>
    /\ UNCHANGED <<discipline, registry, input, pc, idx, pending, visited, nodes, err, calls, last>>

Release(d) ==
    CASE discipline = "term" -> locks \ {TermOf(d)}
      [] discipline = "entry" -> locks \ {rfcSpec}
      [] OTHER -> locks

\* SetValueBegin reading the Name again, and returning if it is set by now
SetValueBeginRechecks(t) ==
    /\ ~crashed
    /\ threads[t].pc = "commit"
    /\ LET d == threads[t].d
       IN IF NameOf(vocab[rfcSpec], TermOf(d)) # ""
          THEN /\ threads' = [threads EXCEPT ![t].pc = "done"]
               /\ locks' = Release(d)
               /\ UNCHANGED setCalls
          ELSE /\ threads' = [threads EXCEPT ![t].pc = "writing"]
               /\ setCalls' = [setCalls EXCEPT ![TermOf(d)] = @ + 1]
               /\ UNCHANGED locks
    /\ UNCHANGED <<serial, crashed, vocab>>
    /\ UNCHANGED <<discipline, registry, input, pc, idx, pending, visited, nodes, err, calls, last>>

SetValueBegin(t) ==
    /\ ~crashed
    /\ threads[t].pc = "commit"
    /\ LET d == threads[t].d
           p == UrlParse(rfcSpec \o TermOf(d))
       IN IF p.err # Nil
          THEN /\ threads' = [threads EXCEPT ![t].pc = "done", ![t].err = p.err]
               /\ locks' = Release(d)
               /\ UNCHANGED <<setCalls, serial, crashed, vocab>>
          ELSE \E access \in Accesses(t) :
                 IF access = "fatal" THEN Fatal
                 ELSE /\ threads' = [u \in Threads |->
                                       IF u = t
                                       THEN [threads[t] EXCEPT !.pc = "writing",
                                                               !.raced = Storing(t) # {}]
                                       ELSE IF u \in Storing(t)
                                            THEN [threads[u] EXCEPT !.raced = TRUE]
                                            ELSE threads[u]]
                      /\ setCalls' = [setCalls EXCEPT ![TermOf(d)] = @ + 1]
                      /\ UNCHANGED <<locks, serial, crashed, vocab>>
    /\ UNCHANGED <<discipline, registry, input, pc, idx, pending, visited, nodes, err, calls, last>>

SetValueEnd(t) ==
    /\ ~crashed
    /\ threads[t].pc = "writing"
    /\ LET d == threads[t].d
           p == UrlParse(rfcSpec \o TermOf(d))
           r == SetValue(vocab[rfcSpec], TermOf(d), ScalarValue(d.pkg, TermOf(d), p.url, WhatOf(d)))
       IN \E landed \in (IF threads[t].raced THEN BOOLEAN ELSE {TRUE}) :
            /\ vocab' = IF landed THEN [vocab EXCEPT ![rfcSpec] = r.ref] ELSE vocab
            /\ threads' = [threads EXCEPT ![t].pc = "done",
                                          ![t].err = IF landed THEN r.err ELSE Nil]
            /\ locks' = Release(d)
    /\ UNCHANGED <<setCalls, serial, crashed>>
    /\ UNCHANGED <<discipline, registry, input, pc, idx, pending, visited, nodes, err, calls, last>>

Disciplines == {"none", "term", "entry"}

\* the nodes of both providers are held, no call has begun, and the host has
\* settled how it serialises
ParallelInit ==
    /\ registry = FullRegistry
    /\ input = [k \in {JSON_LD_CONTEXT} |-> Arr(<<Str(rfcSpec), Str("")>>)]
    /\ pc = "returned"
    /\ idx = 3
    /\ pending = {}
    /\ visited = <<>>
    /\ nodes = getFor(FullRegistry, rfcSpec).nodes \o getFor(FullRegistry, "").nodes
    /\ err = Nil
    /\ calls = <<CallFor(rfcSpec), CallFor("")>>
    /\ vocab = EmptyVocabulary
    /\ last = NoCall
    /\ threads = [t \in Threads |-> IdleThread]
    /\ locks = {}
    /\ setCalls = [n \in TermNames |-> 0]
    /\ serial = <<>>
    /\ crashed = FALSE
    /\ discipline \in Disciplines

ParallelNext ==
    \E t \in Threads :
        \/ ApplyCall(t)
        \/ ApplyGetReference(t)
        \/ ApplyCheck(t)
        \/ SetValueBegin(t)
        \/ SetValueEnd(t)

ParallelSpec == ParallelInit /\ [][ParallelNext]_vars

(***************************************************************************)
(* Properties of parseJSONLDContext.                                       *)
(***************************************************************************)
Returned == pc \in {"returned", "parsed"}
HasContext == JSON_LD_CONTEXT \in DOMAIN input

\* C1: a document with no @context key makes the resolver return the
\* missing-context shape error and no nodes, without any registry call,
\* whatever the registry holds.
C1_NoContextShapeError ==
    (Returned /\ ~HasContext) =>
        /\ err = ErrNoContext
        /\ err \in ShapeErrors
        /\ nodes = <<>>
        /\ calls = <<>>

C1_Witness ==
    /\ Returned
    /\ ~HasContext
    /\ DOMAIN registry = Names
    /\ err = ErrNoContext

\* C2: a @context that is neither a sequence, a mapping nor a string makes
\* the resolver return the "value is not a string" shape error and no nodes,
\* whatever the registry's unaliased lookup returns.
C2_SingleNotStringShapeError ==
    (Returned /\ HasContext /\ Context.kind \notin {"array", "map", "string"}) =>
        /\ err = ErrSingle
        /\ nodes = <<>>

\* C3: whenever the resolver returns an error, the node list it returns is
\* empty, also when the failure comes after earlier entries have resolved.
C3_NoPartialResults ==
    (Returned /\ err # Nil) => nodes = <<>>

\* what one mapping entry, one sequence element are expected to do
EntryErr(reg, alias, val, shapeErr) ==
    IF IsString(val) THEN getAliased(reg, alias, val.s).err
    ELSE IF IsDict(val) THEN getAliasedObject(reg, alias, val.m).err
    ELSE shapeErr

EntryCall(alias, val) ==
    IF IsString(val) THEN CallAliased(alias, val.s) ELSE CallAliasedObject(alias, val.m)

EntryCalls(val) == IF IsString(val) \/ IsDict(val) THEN 1 ELSE 0

ElemOk(reg, e) ==
    \/ IsString(e) /\ getFor(reg, e.s).err = Nil
    \/ IsDict(e) /\ \A alias \in DOMAIN e.m : EntryErr(reg, alias, e.m[alias], ErrDictInArray) = Nil

ElemCalls(e) ==
    IF IsString(e) THEN 1 ELSE IF IsDict(e) THEN Cardinality(DOMAIN e.m) ELSE 0

RECURSIVE SumCalls(_, _)
SumCalls(a, n) == IF n = 0 THEN 0 ELSE SumCalls(a, n - 1) + ElemCalls(a[n])

\* the result a registry call of the log had
CallResult(reg, c) ==
    CASE c.op = "getFor" -> getFor(reg, c.name)
      [] c.op = "getAliased" -> getAliased(reg, c.alias, c.name)
      [] c.op = "getAliasedObject" -> getAliasedObject(reg, c.alias, c.object)

\* the traversal of mapping m failed at its last visited entry, base calls
\* having been made before the mapping was entered
FailedInDict(reg, m, shapeErr, base) ==
    LET n == Len(visited)
    IN /\ n >= 1
       /\ \A k \in 1..(n - 1) : EntryErr(reg, visited[k], m[visited[k]], shapeErr) = Nil
       /\ err = EntryErr(reg, visited[n], m[visited[n]], shapeErr)
       /\ Len(calls) = base + (n - 1) + EntryCalls(m[visited[n]])
       /\ EntryCalls(m[visited[n]]) = 1 => calls[Len(calls)] = EntryCall(visited[n], m[visited[n]])

FailedInArray(reg, a) ==
    LET base == SumCalls(a, idx - 1)
        e == a[idx]
    IN /\ idx \in 1..Len(a)
       /\ \A k \in 1..(idx - 1) : ElemOk(reg, a[k])
       /\ IF IsString(e)
          THEN /\ err = getFor(reg, e.s).err
               /\ Len(calls) = base + 1
               /\ calls[Len(calls)] = CallFor(e.s)
          ELSE IF IsDict(e)
          THEN FailedInDict(reg, e.m, ErrDictInArray, base)
          ELSE /\ err = ErrArrayElem
               /\ Len(calls) = base

\* C4: the resolver is fail-fast: for a sequence or mapping context the error
\* returned is the error of the first failing step in traversal order, every
\* step before it succeeded, and no registry call is made after the failing one.
C4_FailFast ==
    (Returned /\ HasContext /\ err # Nil /\ (IsArray(Context) \/ IsDict(Context))) =>
        /\ IF IsArray(Context)
           THEN FailedInArray(registry, Context.a)
           ELSE FailedInDict(registry, Context.m, ErrDict, 0)
        /\ \A k \in 1..(Len(calls) - 1) : CallResult(registry, calls[k]).err = Nil
        /\ err \notin ShapeErrors => err = CallResult(registry, calls[Len(calls)]).err
        /\ err \in ShapeErrors => \A k \in 1..Len(calls) : CallResult(registry, calls[k]).err = Nil

C4_Witness ==
    /\ Returned
    /\ HasContext
    /\ IsArray(Context)
    /\ Len(Context.a) = 2
    /\ idx = 1
    /\ IsDict(Context.a[1])
    /\ Len(visited) = 1
    /\ pending # {}
    /\ err \notin ShapeErrors \cup {Nil}
    /\ ElemOk(registry, Context.a[2])

RECURSIVE ConcatFor(_, _, _)
ConcatFor(reg, a, n) ==
    IF n = 0 THEN <<>> ELSE ConcatFor(reg, a, n - 1) \o getFor(reg, a[n].s).nodes

RECURSIVE SumFor(_, _, _)
SumFor(reg, a, n) ==
    IF n = 0 THEN 0 ELSE SumFor(reg, a, n - 1) + Len(getFor(reg, a[n].s).nodes)

AllStringsResolve(reg, a) ==
    \A k \in 1..Len(a) : IsString(a[k]) /\ getFor(reg, a[k].s).err = Nil

\* C5: for a sequence of strings that the registry all resolves, the resolver
\* succeeds with the concatenation, in document order, of the nodes of the
\* unaliased lookups of the strings, one lookup per element.
C5_ArrayOfStringsConcatenates ==
    (Returned /\ HasContext /\ IsArray(Context) /\ AllStringsResolve(registry, Context.a)) =>
        /\ err = Nil
        /\ nodes = ConcatFor(registry, Context.a, Len(Context.a))
        /\ Len(nodes) = SumFor(registry, Context.a, Len(Context.a))
        /\ calls = [k \in 1..Len(Context.a) |-> CallFor(Context.a[k].s)]

C5_Witness ==
    /\ Returned
    /\ HasContext
    /\ IsArray(Context)
    /\ AllStringsResolve(registry, Context.a)
    /\ Len(Context.a) = 2
    /\ Context.a[1] # Context.a[2]
    /\ Len(nodes) = 6
    /\ nodes[1] # nodes[4]

\* C6: for a bare string context the resolver makes exactly one registry call,
\* the unaliased lookup of the string, and returns that call's nodes and error.
C6_BareStringSingleLookup ==
    (Returned /\ HasContext /\ IsString(Context)) =>
        /\ calls = <<CallFor(Context.s)>>
        /\ nodes = getFor(registry, Context.s).nodes
        /\ err = getFor(registry, Context.s).err

C6_Witness ==
    /\ Returned
    /\ HasContext
    /\ IsString(Context)
    /\ Context.s = rfcSpec
    /\ DOMAIN registry = Names
    /\ Len(nodes) = 3

IsOther(e) == ~IsString(e) /\ ~IsDict(e)

\* C7: a sequence context holding an element that is neither a mapping nor a
\* string, all elements before it resolving without error, fails with the
\* array-element shape error, and no registry call is made for that element
\* or any later one.
C7_BadArrayElement ==
    (Returned /\ HasContext /\ IsArray(Context)) =>
        \A j \in 1..Len(Context.a) :
            (IsOther(Context.a[j]) /\ \A k \in 1..(j - 1) : ElemOk(registry, Context.a[k])) =>
                /\ err = ErrArrayElem
                /\ idx = j
                /\ Len(calls) = SumCalls(Context.a, j - 1)
                /\ \A k \in 1..Len(calls) : CallResult(registry, calls[k]).err = Nil

C7_Witness ==
    /\ Returned
    /\ HasContext
    /\ IsArray(Context)
    /\ Len(Context.a) = 2
    /\ ElemOk(registry, Context.a[1])
    /\ IsOther(Context.a[2])
    /\ Len(calls) >= 1
    /\ err = ErrArrayElem

RECURSIVE FoldDictInArray(_, _, _, _)
FoldDictInArray(reg, m, order, n) ==
    IF n = 0 THEN State(<<>>, Nil, <<>>)
    ELSE DictInArrayEntry(reg, FoldDictInArray(reg, m, order, n - 1), order[n], m[order[n]])

RECURSIVE FoldDict(_, _, _, _)
FoldDict(reg, m, order, n) ==
    IF n = 0 THEN State(<<>>, Nil, <<>>)
    ELSE DictEntry(reg, FoldDict(reg, m, order, n - 1), order[n], m[order[n]])

EntryShapeErrors == {ErrDict, ErrDictInArray}

SameOutcome(s1, s2) ==
    /\ s1.nodes = s2.nodes
    /\ s1.calls = s2.calls
    /\ \/ s1.err = s2.err
       \/ s1.err \in EntryShapeErrors /\ s2.err \in EntryShapeErrors

\* the entries visited so far made the calls the claim names, up to a shape error
CallsPerEntry(m) ==
    /\ Len(calls) = Len(visited) - (IF err \in EntryShapeErrors THEN 1 ELSE 0)
    /\ \A k \in 1..Len(calls) : calls[k] = EntryCall(visited[k], m[visited[k]])
    /\ err \in EntryShapeErrors <=>
          (Len(visited) >= 1 /\ EntryCalls(m[visited[Len(visited)]]) = 0)
    /\ (Returned /\ err = Nil) => {visited[k] : k \in 1..Len(visited)} = DOMAIN m

WrappedDict == IsArray(Context) /\ Len(Context.a) = 1 /\ IsDict(Context.a[1])

\* C8: a top-level mapping context is resolved like the same mapping wrapped in
\* a one-element sequence: with the same iteration order of the entries, the two
\* make the same registry calls (aliased-simple for a string value,
\* aliased-object for a mapping value), collect the same nodes, and fail with a
\* shape error in the same cases.
C8_DictLikeWrappedDict ==
    /\ (HasContext /\ IsDict(Context)) =>
          /\ SameOutcome(Cur, FoldDictInArray(registry, Context.m, visited, Len(visited)))
          /\ CallsPerEntry(Context.m)
    /\ (HasContext /\ WrappedDict) =>
          /\ SameOutcome(Cur, FoldDict(registry, Context.a[1].m, visited, Len(visited)))
          /\ CallsPerEntry(Context.a[1].m)

C8_Witness ==
    /\ Returned
    /\ HasContext
    /\ IsDict(Context)
    /\ visited = <<"y", "x">>
    /\ IsString(Context.m["y"])
    /\ IsDict(Context.m["x"])
    /\ err = Nil
    /\ Len(nodes) = 3
    /\ Len(calls) = 2

(***************************************************************************)
(* Properties of the nodes and of the Parsed Vocabulary.                   *)
(***************************************************************************)
\* C9: resolution never touches the shared vocabulary: until the resolver has
\* returned, the Parsed Vocabulary is as it was and no Apply, Enter or Exit of
\* a node has been invoked.
C9_ResolveLeavesVocabulary ==
    ~Returned => (vocab = EmptyVocabulary /\ last = NoCall)

C9_Witness ==
    /\ Returned
    /\ last # NoCall
    /\ last.op = "Apply"
    /\ vocab # EmptyVocabulary
    /\ Len(calls) >= 2

Populated(ctx, name) ==
    rfcSpec \in DOMAIN ctx /\ NameOf(ctx[rfcSpec], name) # ""

\* C10: Apply is idempotent: in every reachable vocabulary, for every node, key
\* and value, a second Apply right after a first leaves the Parsed Vocabulary as
\* the first left it, returns no error and commits nothing.
C10_ApplyIdempotent ==
    \A d \in Held, key \in Keys, value \in WireValues :
        LET first == NodeApply(d, key, value, vocab)
            second == NodeApply(d, key, value, first.ctx)
        IN /\ second.ctx = first.ctx
           /\ second.err = Nil
           /\ second.commits = 0
           /\ Populated(first.ctx, TermOf(d))

C10_Witness ==
    /\ last # NoCall
    /\ last.op = "Apply"
    /\ last.kind = "mime"
    /\ last.commits = 0
    /\ last.err = Nil
    /\ Populated(vocab, mimeSpec)
    /\ ~Populated(vocab, bcp47Spec)

\* the key and the value make no difference to what a node's Apply does
KeyValueIrrelevant(ds) ==
    \A d \in ds, k1 \in Keys, k2 \in Keys, v1 \in WireValues, v2 \in WireValues :
        NodeApply(d, k1, v1, vocab) = NodeApply(d, k2, v2, vocab)

RECURSIVE ApplyAll(_, _, _, _, _)
ApplyAll(ds, n, key, value, ctx) ==
    IF n = 0 THEN ctx
    ELSE NodeApply(ds[n], key, value, ApplyAll(ds, n - 1, key, value, ctx)).ctx

Perms(n) == {f \in [1..n -> 1..n] : \A i, j \in 1..n : f[i] = f[j] => i = j}

\* every permutation of every sequence of up to MaxApplied nodes of ds ends in
\* the same vocabulary; every vocabulary on the way is itself a reachable one,
\* where KeyValueIrrelevant lets each application have its own key and value
OrderIndependent(ds) ==
    /\ KeyValueIrrelevant(ds)
    /\ \A seq \in SeqsUpTo(ds, MaxApplied), key \in Keys, value \in WireValues :
          \A f \in Perms(Len(seq)) :
              ApplyAll([i \in 1..Len(seq) |-> seq[f[i]]], Len(seq), key, value, vocab)
                  = ApplyAll(seq, Len(seq), key, value, vocab)

\* C11 (as claimed): from any vocabulary, applying any nodes of the provider,
\* with any keys and values, in any permutation ends in the same vocabulary.
C11_OrderIndependentAnyNodes == OrderIndependent(Held)

HeldOf(pkg) == {d \in Held : d.pkg = pkg}

\* C11 (amended): from any reachable vocabulary, applying any nodes that carry
\* the same output package, with any keys and values, in any permutation ends
\* in the same vocabulary.
C11_OrderIndependentSamePackage ==
    \A pkg \in {d.pkg : d \in Held} : OrderIndependent(HeldOf(pkg))

PackageAt(ctx, name) == ctx[rfcSpec].Values[name].SerializeFn.pkg

C11_Witness ==
    /\ last # NoCall
    /\ last.op = "Apply"
    /\ last.kind = "bcp47"
    /\ last.commits = 1
    /\ Populated(vocab, mimeSpec)
    /\ Populated(vocab, bcp47Spec)
    /\ PackageAt(vocab, mimeSpec) = PackageAt(vocab, bcp47Spec)
    /\ Cardinality({d.pkg : d \in Held}) = 2

SlotOf(ctx, name) == ctx[rfcSpec].Values[name]

\* C12: every (spec URI, term) slot is write-once: it starts unpopulated, and
\* once it is populated no Apply, Enter or Exit of any node changes its value
\* or makes it unpopulated again.
C12_WriteOnce ==
    /\ \A n \in TermNames : ~Populated(vocab, n)
    /\ [][\A n \in TermNames :
            Populated(vocab, n) =>
                (Populated(vocab', n) /\ SlotOf(vocab', n) = SlotOf(vocab, n))]_vars

C12_Witness ==
    /\ last # NoCall
    /\ last.op = "Apply"
    /\ last.kind = "rel"
    /\ last.commits = 0
    /\ \A n \in TermNames : Populated(vocab, n)
    /\ PackageAt(vocab, relSpec) # PackageAt(vocab, bcp47Spec)

\* what the vocabulary holds for a (spec, term) pair, if anything
SlotView(ctx, name) ==
    IF rfcSpec \in DOMAIN ctx /\ name \in DOMAIN ctx[rfcSpec].Values
    THEN [present |-> TRUE, value |-> ctx[rfcSpec].Values[name]]
    ELSE [present |-> FALSE]

\* C13: an Apply that returns an error (the URI does not parse, or the commit
\* fails) leaves the value of its (spec, term) pair as it was before the call.
C13_FailedApplyNoPartialWrite ==
    \A d \in Held, key \in Keys, value \in WireValues :
        LET out == NodeApply(d, key, value, vocab)
        IN out.err # Nil =>
              /\ SlotView(out.ctx, TermOf(d)) = SlotView(vocab, TermOf(d))
              /\ out.claimed

C13_Witness ==
    /\ last # NoCall
    /\ last.op = "Apply"
    /\ last.kind = "bcp47"
    /\ last.err = ErrCollision
    /\ SlotView(vocab, bcp47Spec) = [present |-> TRUE, value |-> UnnamedValue]
    /\ Populated(vocab, mimeSpec)

\* C14: for every node, key and vocabulary, Enter and Exit return an error
\* (the operation is not supported) and leave the Parsed Vocabulary unchanged;
\* no call sequence makes either succeed.
C14_EnterExitUnsupported ==
    /\ \A d \in Held, key \in Keys :
          /\ NodeEnter(d, key, vocab).err # Nil
          /\ NodeEnter(d, key, vocab).ctx = vocab
          /\ NodeExit(d, key, vocab).err # Nil
          /\ NodeExit(d, key, vocab).ctx = vocab
    /\ (last # NoCall /\ last.op \in {"Enter", "Exit"}) =>
          (last.err # Nil /\ last.commits = 0)

C14_Witness ==
    /\ last # NoCall
    /\ last.op = "Exit"
    /\ last.kind = "rel"
    /\ last.err # Nil
    /\ Populated(vocab, relSpec)
    /\ ~Populated(vocab, mimeSpec)

\* a key that is the canonical name of another term of the provider
ForeignKey(key, d) == key \in TermNames \ {TermOf(d)}

Quiescent == \A t \in Threads : threads[t].pc \in {"idle", "done"}

\* each term is committed at most once, no Apply returns an error, the program
\* is not stopped, and once the calls are over the vocabulary is the one that
\* applying the nodes one after the other, in the order they were serialised,
\* produces
ParallelOutcome ==
    /\ ~crashed
    /\ \A n \in TermNames : setCalls[n] <= 1
    /\ \A t \in Threads : threads[t].err = Nil
    /\ Quiescent =>
          \A key \in Keys, value \in WireValues :
              vocab = ApplyAll(serial, Len(serial), key, value, EmptyVocabulary)

Committers(n) ==
    {t \in Threads : /\ threads[t].pc \in {"writing", "done"}
                     /\ threads[t].sawEmpty
                     /\ TermOf(threads[t].d) = n}

\* C17: without serialisation the check and the commit are separate steps:
\* every thread that read the Name of its term as empty goes on to invoke
\* SetValue, whatever has been stored at the slot since, so that two first
\* Apply calls for the same unpopulated term can both read it as unpopulated
\* and both invoke SetValue for the same slot.
C17_CheckThenCommitNotAtomic ==
    discipline = "none" =>
        /\ \A t \in Threads : threads[t].pc \in {"commit", "writing"} => threads[t].sawEmpty
        /\ \A n \in TermNames : setCalls[n] = Cardinality(Committers(n))

C17_Witness ==
    /\ discipline = "none"
    /\ \E t \in Threads, u \in Threads :
          /\ t # u
          /\ {t, u} \subseteq Committers(bcp47Spec)
          /\ setCalls[bcp47Spec] = 2


\* URL.String of an absolute URL
UrlString(u) == u.Scheme \o "://" \o u.Host \o u.Path

\* the slot holds the scalar description of the term
ScalarSlot(ctx, name) ==
    /\ Populated(ctx, name)
    /\ SlotOf(ctx, name).Name = name
    /\ UrlString(SlotOf(ctx, name).URI) = rfcSpec \o name
    /\ SlotOf(ctx, name).Zero = "\"\""
    /\ SlotOf(ctx, name).IsNilable = FALSE

\* C18: in every reachable vocabulary, the Apply of any node whose term is
\* unpopulated, with any key and value, if it returns no error, leaves the slot
\* under the canonical name holding a value whose Name is the canonical name,
\* whose URI is the spec URI followed by the name, whose Zero is the literal of
\* the empty string and which is not nilable.
C18_FirstApplyStoresScalar ==
    \A d \in Held, key \in Keys, value \in WireValues :
        ~Populated(vocab, TermOf(d)) =>
            LET out == NodeApply(d, key, value, vocab)
            IN out.err = Nil => (out.commits = 1 /\ ScalarSlot(out.ctx, TermOf(d)))

C18_Witness ==
    /\ last # NoCall
    /\ last.op = "Apply"
    /\ last.kind = "rel"
    /\ last.key = "x"
    /\ last.commits = 1
    /\ last.err = Nil
    /\ ScalarSlot(vocab, relSpec)
    /\ ~Populated(vocab, bcp47Spec)


\* what every call of LoadSpecificAsAlias returns for a name that is no term
NoTermNotFound ==
    \A o \in Providers, alias \in Aliases, name \in AskedNames \ TermNames :
        LET r == LoadSpecificAsAlias(o, alias, name)
        IN r.nodes = <<>> /\ r.err = ErrCannotFind(name, alias)

\* the nodes and the error held are those of the last call
HoldsLastLoad ==
    calls # <<>> =>
        LET r == LoadSpecificAsAlias(RFCOntology(calls[1].pkg), calls[1].alias, calls[1].name)
        IN nodes = r.nodes /\ err = r.err

C20_ParseVocabularyNil ==
    pc = "parsed" =>
        /\ last = [op |-> "ParseVocabulary", vocabulary |-> Nil, err |-> err]
        /\ err = Cur.err
        /\ vocab = EmptyVocabulary

C20_Witness ==
    /\ pc = "parsed"
    /\ err = Nil
    /\ Len(nodes) = 6
    /\ last.vocabulary = Nil
    /\ last.err = Nil

C20_WitnessError ==
    /\ pc = "parsed"
    /\ err = ErrNotFound(rfcSpec)
    /\ Len(nodes) = 3
    /\ last.vocabulary = Nil
    /\ last.err = ErrNotFound(rfcSpec)

====
